---------------------------- MODULE Spec2Model ----------------------------
(***************************************************************************)
(* Model of src/main.py, the "Report System Dashboard API": a FastAPI      *)
(* service whose handlers look a project's metrics table up in the         *)
(* `projects` table and answer one SQL query against it.                   *)
(*                                                                         *)
(* The handlers are `async def` without any await, so the event loop runs  *)
(* one request at a time: the model has one request in flight.  A request  *)
(* is split where the environment decides something: every connection      *)
(* attempt, and every query (which the database may fail).                 *)
(*                                                                         *)
(* SQL NULL / Python None is the empty tuple, a present value v is <<v>>.  *)
(* A string that the code inspects (a table name) is a tuple of one-       *)
(* character strings.                                                      *)
(***************************************************************************)
EXTENDS Integers, Sequences, FiniteSets, TLC

None == << >>
Some(v) == << v >>

(* Python `x or 0` on an optional integer column *)
OrZero(o) == IF o = None \/ o = Some(0) THEN 0 ELSE o[1]

-----------------------------------------------------------------------------
(* Calendar arithmetic of MySQL DATE(), DATE_FORMAT(.., '%M'), INTERVAL and *)
(* of Python strptime / strftime.  A date is <<year, month, day>>; a        *)
(* DATETIME is [date |-> days since 1970-01-01, sec |-> second of the day]. *)

IsLeap(y) == (y % 4 = 0 /\ y % 100 # 0) \/ y % 400 = 0

DaysInMonth(y, m) ==
    IF m = 2 THEN (IF IsLeap(y) THEN 29 ELSE 28)
    ELSE IF m \in {4, 6, 9, 11} THEN 30 ELSE 31

DaysFromCivil(y, m, d) ==
    LET yy  == IF m <= 2 THEN y - 1 ELSE y
        era == yy \div 400
        yoe == yy - era * 400
        mp  == IF m > 2 THEN m - 3 ELSE m + 9
        doy == (153 * mp + 2) \div 5 + d - 1
        doe == yoe * 365 + yoe \div 4 - yoe \div 100 + doy
    IN  era * 146097 + doe - 719468

CivilFromDays(z) ==
    LET zz  == z + 719468
        era == zz \div 146097
        doe == zz - era * 146097
        yoe == (doe - doe \div 1460 + doe \div 36524 - doe \div 146096) \div 365
        doy == doe - (365 * yoe + yoe \div 4 - yoe \div 100)
        mp  == (5 * doy + 2) \div 153
        d   == doy - (153 * mp + 2) \div 5 + 1
        m   == IF mp < 10 THEN mp + 3 ELSE mp - 9
        y   == yoe + era * 400 + (IF m <= 2 THEN 1 ELSE 0)
    IN  << y, m, d >>

MonthNames ==
    << "January", "February", "March", "April", "May", "June", "July",
       "August", "September", "October", "November", "December" >>

(* DATE(last_updated): the calendar day, the time of day dropped *)
DATE(ts) == ts.date

(* DATE_FORMAT(last_updated, '%M'): the month's name, the year dropped *)
DATE_FORMAT_M(ts) == MonthNames[CivilFromDays(ts.date)[2]]

(* a DATE compared with a DATETIME is that day's midnight *)
Midnight(day) == [date |-> day, sec |-> 0]

TsLess(a, b) == a.date < b.date \/ (a.date = b.date /\ a.sec < b.sec)
TsGeq(a, b) == ~TsLess(a, b)

(* CURDATE() - INTERVAL n DAY *)
SubDays(day, n) == day - n

(* CURDATE() - INTERVAL n MONTH: the day of month is clamped to the        *)
(* target month's length (31 August - 6 months = 29 February 2024)          *)
SubMonths(day, n) ==
    LET c  == CivilFromDays(day)
        k  == c[1] * 12 + (c[2] - 1) - n
        y  == k \div 12
        m  == (k % 12) + 1
        dm == DaysInMonth(y, m)
        d  == IF c[3] > dm THEN dm ELSE c[3]
    IN  DaysFromCivil(y, m, d)

-----------------------------------------------------------------------------
(* sanitize_table_name: not table_name or not re.match(pattern, name)      *)

Lower == { "a", "b", "c", "d", "e", "f", "g", "h", "i", "j", "k", "l", "m",
           "n", "o", "p", "q", "r", "s", "t", "u", "v", "w", "x", "y", "z" }
Upper == { "A", "B", "C", "D", "E", "F", "G", "H", "I", "J", "K", "L", "M",
           "N", "O", "P", "Q", "R", "S", "T", "U", "V", "W", "X", "Y", "Z" }
Digit == { "0", "1", "2", "3", "4", "5", "6", "7", "8", "9" }
HeadChar == Lower \cup Upper \cup { "_" }
WordChar == HeadChar \cup Digit

(* re.match(r'^[a-zA-Z_][a-zA-Z0-9_]*$', s).  Without re.MULTILINE, `$`     *)
(* matches at the end of the string and also just before a newline that is *)
(* the string's last character.                                            *)
ReMatchIdentifier(s) ==
    /\ Len(s) >= 1
    /\ s[1] \in HeadChar
    /\ LET n == IF s[Len(s)] = "\n" THEN Len(s) - 1 ELSE Len(s)
       IN  \A i \in 2..n : s[i] \in WordChar

(* sanitize_table_name (raise 400, or return the name unchanged).  A call   *)
(* that raises is [raised |-> TRUE, exc |-> the HTTPException]; one that    *)
(* returns is [raised |-> FALSE, value |-> the value].                      *)

HTTPException(status_code, detail) ==
    [status |-> status_code, detail |-> detail, payload |-> None]

(* a returned body, sent by FastAPI with its default status 200 *)
Response(body) == [status |-> 200, detail |-> "", payload |-> Some(body)]

Pending == [status |-> 0, detail |-> "", payload |-> None]

Raised(exc) == [raised |-> TRUE, exc |-> exc, value |-> None]
Returned(v) == [raised |-> FALSE, exc |-> Pending, value |-> Some(v)]

(* a sanitizer whose pattern lost its `$`: only the first character counts *)
sanitize_table_name_unanchored(table_name) ==
    IF table_name = None \/ table_name[1] = << >>
          \/ table_name[1][1] \notin HeadChar
    THEN Raised(HTTPException(400, "Invalid table name"))
    ELSE Returned(table_name[1])

sanitize_table_name(table_name) ==
    IF table_name = None \/ table_name[1] = << >>
          \/ ~ReMatchIdentifier(table_name[1])
    THEN Raised(HTTPException(400, "Invalid table name"))
    ELSE Returned(table_name[1])

-----------------------------------------------------------------------------
(* The database.  `projects` is the projects table: project_id -> the       *)
(* table_name column (nullable).  One metrics table exists, MetricsTable;   *)
(* its rows are the variable `rows`, in the order the server stores them.   *)

MetricsTable == << "t", "_", "1" >>

projects ==
    (1 :> Some(MetricsTable))                 (* a project with its table      *)
    @@ (2 :> Some(<< "1", "t" >>))            (* name starting with a digit    *)
    @@ (3 :> Some(<< >>))                     (* empty name                    *)
    @@ (4 :> None)                            (* NULL name                     *)
    @@ (5 :> Some(<< "t", ";", "-" >>))       (* name with SQL punctuation     *)
    @@ (6 :> Some(<< "t", "_", "1", "\n" >>)) (* name with a trailing newline  *)

(* a project_id with no row in the projects table *)
UnknownProject == Cardinality(DOMAIN projects) + 1
ProjectIds == DOMAIN projects \cup { UnknownProject }

(* rows a metrics table is filled from; columns of the queries of main.py   *)
(* (id, project_name, table_name and detected_timestamp are read by no      *)
(* condition of the code and are left out)                                  *)
Row(uc, tu, tuc, users, lu, wd) ==
    [update_count |-> uc, top_user |-> tu, top_user_count |-> tuc,
     total_users |-> users, last_updated |-> lu, weekday |-> wd]

At(y, m, d, s) == Some([date |-> DaysFromCivil(y, m, d), sec |-> s])

RowPool ==
    { Row(0, Some(1), Some(5), Some(100), At(2024, 8, 31, 100), "Saturday"),
      Row(2, Some(1), Some(3), Some(90),  At(2024, 8, 31, 200), "Saturday"),
      Row(3, Some(2), Some(7), None,      At(2024, 8, 1, 0),    "Thursday"),
      Row(4, None,    None,    Some(120), At(2024, 7, 22, 50),  "Monday"),
      Row(1, Some(2), Some(0), Some(0),   At(2023, 8, 31, 0),   "Thursday"),
      Row(5, None,    Some(9), Some(70),  None,                 "Friday") }

(* the most rows a metrics table holds *)
MaxRows == 2

Tables == UNION { [1..n -> RowPool] : n \in 0..MaxRows }

(* the days the server's clock may show *)
Todays == { DaysFromCivil(2024, 8, 31), DaysFromCivil(2025, 2, 28) }

(* `date` query parameters in DD/MM/YYYY order; the last two are no dates *)
DateInputs == { << 31, 8, 2024 >>, << 1, 8, 2024 >>,
                << 31, 2, 2024 >>, << 1, 13, 2024 >> }

(* format_date: strptime(date_str, "%d/%m/%Y") then strftime("%Y-%m-%d")    *)
format_date(date_str) ==
    LET d == date_str[1]
        m == date_str[2]
        y == date_str[3]
    IN  IF y \in 1..9999 /\ m \in 1..12 /\ d \in 1..DaysInMonth(y, m)
        THEN Returned(<< y, m, d >>)
        ELSE Raised(HTTPException(400, "Invalid date format. Use DD/MM/YYYY."))

-----------------------------------------------------------------------------
(* The SQL of the handlers, over the rows rs of the metrics table.          *)

RowIds(rs) == 1..Len(rs)

RECURSIVE SumUpdates(_, _)
SumUpdates(rs, S) ==
    IF S = {} THEN 0
    ELSE LET i == CHOOSE j \in S : TRUE
         IN  rs[i].update_count + SumUpdates(rs, S \ {i})

(* SUM(update_count): NULL over no rows *)
SUM(rs, S) == IF S = {} THEN None ELSE Some(SumUpdates(rs, S))

(* MAX(column): NULLs are skipped, NULL when nothing is left *)
MAX(vals) ==
    LET present == { v[1] : v \in { w \in vals : w # None } }
    IN  IF present = {} THEN None
        ELSE Some(CHOOSE v \in present : \A w \in present : w <= v)

(* ORDER BY last_updated: NULL sorts below every value *)
OrderLeq(a, b) ==
    \/ a = None
    \/ a # None /\ b # None /\ TsGeq(b[1], a[1])

(* ORDER BY last_updated ASC LIMIT 1 *)
OldestRows(rs) ==
    { i \in RowIds(rs) :
        \A j \in RowIds(rs) : OrderLeq(rs[i].last_updated, rs[j].last_updated) }

(* ORDER BY last_updated DESC LIMIT 1: the rows fetchone() may return; more *)
(* than one when the greatest last_updated is shared                        *)
LatestRows(rs) ==
    { i \in RowIds(rs) :
        \A j \in RowIds(rs) : OrderLeq(rs[j].last_updated, rs[i].last_updated) }

(* WHERE DATE(last_updated) = %s, the parameter a 'YYYY-MM-DD' string *)
OnDay(rs, day) ==
    { i \in RowIds(rs) :
        /\ rs[i].last_updated # None
        /\ DATE(rs[i].last_updated[1]) = DaysFromCivil(day[1], day[2], day[3]) }

(* the aggregate row of by-date and today: always one row *)
SingleDayRow(rs, day) ==
    LET S == OnDay(rs, day)
    IN  [total_update_count |-> SUM(rs, S),
         top_user       |-> MAX({ rs[i].top_user : i \in S }),
         top_user_count |-> MAX({ rs[i].top_user_count : i \in S }),
         total_users    |-> MAX({ rs[i].total_users : i \in S })]

NoMetricsFound == "No metrics found for day"

(* a handler that tests the sum for truth instead of `is None` *)
SingleDayOutcomeFalsy(result) ==
    IF result.total_update_count \in { None, Some(0) }
    THEN HTTPException(404, NoMetricsFound)
    ELSE Response(result)

(* lines 184-188 and 223-227 *)
SingleDayOutcome(result) ==
    IF result.total_update_count = None
    THEN HTTPException(404, NoMetricsFound)
    ELSE Response(result)

WindowDays == 30
WindowMonths == 6

(* WHERE last_updated >= CURDATE() - INTERVAL 30 DAY, with > for >= *)
InLastDaysStrict(rs, now) ==
    { i \in RowIds(rs) :
        /\ rs[i].last_updated # None
        /\ TsLess(Midnight(SubDays(now, WindowDays)), rs[i].last_updated[1]) }

(* WHERE last_updated >= CURDATE() - INTERVAL 30 DAY *)
InLastDays(rs, now) ==
    { i \in RowIds(rs) :
        /\ rs[i].last_updated # None
        /\ TsGeq(rs[i].last_updated[1], Midnight(SubDays(now, WindowDays))) }

(* WHERE last_updated >= CURDATE() - INTERVAL 6 MONTH *)
InLastMonths(rs, now) ==
    { i \in RowIds(rs) :
        /\ rs[i].last_updated # None
        /\ TsGeq(rs[i].last_updated[1], Midnight(SubMonths(now, WindowMonths))) }

RECURSIVE SetToSeq(_)
SetToSeq(S) ==
    IF S = {} THEN << >>
    ELSE LET x == CHOOSE y \in S : TRUE
         IN  << x >> \o SetToSeq(S \ {x})

(* GROUP BY DATE(last_updated) ORDER BY DATE(last_updated) *)
EntriesPerDay(rs, now) ==
    LET S    == InLastDays(rs, now)
        days == { DATE(rs[i].last_updated[1]) : i \in S }
        grp  == SortSeq(SetToSeq(days), LAMBDA a, b : a < b)
    IN  [k \in 1..Len(grp) |->
            [day |-> CivilFromDays(grp[k]),
             total_updates |->
                SumUpdates(rs, { i \in S : DATE(rs[i].last_updated[1]) = grp[k] })]]

WeekdayOrder ==
    << "Monday", "Tuesday", "Wednesday", "Thursday", "Friday", "Saturday",
       "Sunday" >>

(* FIELD(weekday, 'Monday', ..., 'Sunday'): the position, 0 when not listed *)
FIELD(w) ==
    IF \E k \in 1..Len(WeekdayOrder) : WeekdayOrder[k] = w
    THEN CHOOSE k \in 1..Len(WeekdayOrder) : WeekdayOrder[k] = w
    ELSE 0

(* GROUP BY weekday ORDER BY FIELD(weekday, ...) *)
EntriesPerWeekday(rs, now) ==
    LET S   == InLastDays(rs, now)
        wds == { rs[i].weekday : i \in S }
        grp == SortSeq(SetToSeq(wds), LAMBDA a, b : FIELD(a) < FIELD(b))
    IN  [k \in 1..Len(grp) |->
            [weekday |-> grp[k],
             total_updates |->
                SumUpdates(rs, { i \in S : rs[i].weekday = grp[k] })]]

(* MIN(last_updated) of a group of rows, none with a NULL last_updated *)
MinUpdated(rs, G) ==
    LET i == CHOOSE j \in G :
                 \A k \in G : TsGeq(rs[k].last_updated[1], rs[j].last_updated[1])
    IN  rs[i].last_updated[1]

(* GROUP BY DATE_FORMAT(last_updated, '%M') ORDER BY MIN(last_updated) *)
EntriesPerMonth(rs, now) ==
    LET S     == InLastMonths(rs, now)
        Of(mn) == { i \in S : DATE_FORMAT_M(rs[i].last_updated[1]) = mn }
        names == { DATE_FORMAT_M(rs[i].last_updated[1]) : i \in S }
        grp   == SortSeq(SetToSeq(names),
                         LAMBDA a, b : TsLess(MinUpdated(rs, Of(a)),
                                              MinUpdated(rs, Of(b))))
    IN  [k \in 1..Len(grp) |->
            [month |-> grp[k], total_updates |-> SumUpdates(rs, Of(grp[k]))]]

(* line 256 *)
TotalUsersBody(row) == [total_users |-> OrZero(row.total_users)]

(* a handler that reads the count from the wrong column *)
TopUserBodyWrongColumn(row) ==
    [top_user |-> row.top_user, entry_count |-> OrZero(row.total_users)]

(* lines 280-283 *)
TopUserBody(row) ==
    [top_user |-> row.top_user, entry_count |-> OrZero(row.top_user_count)]

-----------------------------------------------------------------------------
(* The request in flight.                                                   *)

VARIABLES
    today,       (* the day of the clock: datetime.today() and CURDATE()     *)
    rows,        (* the rows of MetricsTable, in stored order                *)
    pc,          (* "idle", "connect", "query" or "done"                     *)
    phase,       (* "lookup": inside get_metrics_table; "handler": after it  *)
    endpoint,    (* the handler serving the request                          *)
    project_id,  (* the path parameter                                       *)
    day,         (* formatted_date / today_date, None for the other handlers *)
    attempts,    (* connection attempts made by the running connect_mysql    *)
    slept,       (* seconds slept by the running connect_mysql               *)
    conns,       (* per connection opened by the request: times closed       *)
    table_name,  (* the value returned by get_metrics_table, None before     *)
    issued,      (* the queries passed to cursor.execute, in order           *)
    raisedAt,    (* the step that raised, "" while none has                  *)
    response     (* what the client is sent; Pending while the handler runs  *)

vars == << today, rows, pc, phase, endpoint, project_id, day, attempts, slept,
           conns, table_name, issued, raisedAt, response >>

ProjectEndpoints ==
    { "get_project_metrics", "get_total_users", "get_top_user",
      "get_entries_per_day", "get_entries_per_weekday",
      "get_entries_per_month" }
SingleDayEndpoints == { "get_metrics_by_date", "get_metrics_today" }

MaxAttempts == 3
RetryDelay == 2

ConnectionFailed == "MySQL connection failed after retries"

ProjectsQuery == [on |-> "projects", table |-> None]
MetricsQuery(name) == [on |-> "metrics", table |-> Some(name)]

(* conn.close() on the connection the running function holds *)
CloseLeak(cs) == cs
Close(cs) == [cs EXCEPT ![Len(cs)] = @ + 1]

Init ==
    /\ today \in Todays
    /\ rows \in Tables
    /\ pc = "idle"
    /\ phase = "handler"
    /\ endpoint = "list_projects"
    /\ project_id = UnknownProject
    /\ day = None
    /\ attempts = 0
    /\ slept = 0
    /\ conns = << >>
    /\ table_name = None
    /\ issued = << >>
    /\ raisedAt = ""
    /\ response = Pending

(* a request arrives: everything the handler does before connect_mysql *)
Begin(ep, pid, d, ph) ==
    /\ pc = "idle"
    /\ endpoint' = ep
    /\ project_id' = pid
    /\ day' = d
    /\ phase' = ph
    /\ pc' = "connect"
    /\ attempts' = 0
    /\ slept' = 0
    /\ UNCHANGED << today, rows, conns, table_name, issued, raisedAt, response >>

StartListProjects == Begin("list_projects", UnknownProject, None, "handler")

StartProjectRequest ==
    \E ep \in ProjectEndpoints, pid \in ProjectIds : Begin(ep, pid, None, "lookup")

StartToday ==
    \E pid \in ProjectIds :
        Begin("get_metrics_today", pid, Some(CivilFromDays(today)), "lookup")

StartByDate ==
    \E pid \in ProjectIds, date \in DateInputs :
        LET f == format_date(date)
        IN  IF f.raised
            THEN /\ pc = "idle"
                 /\ endpoint' = "get_metrics_by_date"
                 /\ project_id' = pid
                 /\ response' = f.exc
                 /\ raisedAt' = "format_date"
                 /\ pc' = "done"
                 /\ UNCHANGED << today, rows, phase, day, attempts, slept, conns,
                                 table_name, issued >>
            ELSE Begin("get_metrics_by_date", pid, f.value, "lookup")

(* connect_mysql: one pass of the loop whose pymysql.connect returns *)
ConnectSucceeds ==
    /\ pc = "connect"
    /\ attempts' = attempts + 1
    /\ conns' = Append(conns, 0)
    /\ pc' = "query"
    /\ UNCHANGED << today, rows, phase, endpoint, project_id, day, slept,
                    table_name, issued, raisedAt, response >>

(* range(3) is used up: the loop ends and line 82 raises *)
RetriesExhaustedLate(made) == made = MaxAttempts + 1
RetriesExhausted(made) == made = MaxAttempts

(* connect_mysql: one pass whose pymysql.connect raises MySQLError *)
ConnectFails ==
    /\ pc = "connect"
    /\ attempts' = attempts + 1
    /\ slept' = slept + RetryDelay
    /\ IF RetriesExhausted(attempts + 1)
       THEN /\ response' = HTTPException(500, ConnectionFailed)
            /\ raisedAt' = "connect_mysql"
            /\ pc' = "done"
       ELSE UNCHANGED << response, raisedAt, pc >>
    /\ UNCHANGED << today, rows, phase, endpoint, project_id, day, conns,
                    table_name, issued >>

(* a lookup whose 404 is caught by a broad handler and turned into a 500 *)
get_metrics_table_masked(pid) ==
    IF pid \notin DOMAIN projects
    THEN Raised(HTTPException(500, "Database error"))
    ELSE sanitize_table_name(projects[pid])

(* get_metrics_table, lines 96-103: fetchone() of the projects query *)
get_metrics_table(pid) ==
    IF pid \notin DOMAIN projects
    THEN Raised(HTTPException(404, "Project not found"))
    ELSE sanitize_table_name(projects[pid])

(* get_metrics_table once connected; `finally` closes on every path *)
LookupProject ==
    /\ pc = "query" /\ phase = "lookup"
    /\ issued' = Append(issued, ProjectsQuery)
    /\ conns' = Close(conns)
    /\ LET r == get_metrics_table(project_id)
       IN  IF r.raised
           THEN /\ response' = r.exc
                /\ raisedAt' = "get_metrics_table"
                /\ pc' = "done"
                /\ UNCHANGED << phase, table_name, attempts, slept >>
           ELSE /\ table_name' = r.value
                /\ phase' = "handler"
                /\ pc' = "connect"
                /\ attempts' = 0
                /\ slept' = 0
                /\ UNCHANGED << response, raisedAt >>
    /\ UNCHANGED << today, rows, endpoint, project_id, day >>

(* get_metrics_table: the projects query raises pymysql.MySQLError *)
LookupFails ==
    /\ pc = "query" /\ phase = "lookup"
    /\ issued' = Append(issued, ProjectsQuery)
    /\ conns' = Close(conns)
    /\ response' = HTTPException(500, "Database error")
    /\ raisedAt' = "lookup_query"
    /\ pc' = "done"
    /\ UNCHANGED << today, rows, phase, endpoint, project_id, day, attempts,
                    slept, table_name >>

(* the metrics query of a handler ran: its outcome, and `finally` *)
Answer(resp) ==
    /\ issued' = Append(issued, MetricsQuery(table_name[1]))
    /\ conns' = Close(conns)
    /\ response' = resp
    /\ raisedAt' = IF resp.status = 200 THEN "" ELSE "no_rows"
    /\ pc' = "done"
    /\ UNCHANGED << today, rows, phase, endpoint, project_id, day, attempts,
                    slept, table_name >>

(* the handler holds a connection and its table is in the database *)
CanQuery(ep) ==
    /\ pc = "query" /\ phase = "handler"
    /\ endpoint = ep
    /\ table_name = Some(MetricsTable)

(* fetchone() after ORDER BY last_updated DESC LIMIT 1: None or a row *)
FetchLatest(rs) ==
    IF rs = << >> THEN { None } ELSE { Some(rs[i]) : i \in LatestRows(rs) }

(* lines 150-154 *)
ProjectMetricsOutcome(result) ==
    IF result = None THEN HTTPException(404, "No metrics found")
    ELSE Response([metrics |-> result[1]])

(* a handler that reports 0 for a table without rows *)
TotalUsersOutcomeZero(result) ==
    IF result = None THEN Response([total_users |-> 0])
    ELSE Response(TotalUsersBody(result[1]))

(* lines 252-256 *)
TotalUsersOutcome(result) ==
    IF result = None THEN HTTPException(404, "No total users found")
    ELSE Response(TotalUsersBody(result[1]))

(* lines 276-283 *)
TopUserOutcome(result) ==
    IF result = None THEN HTTPException(404, "No top user found")
    ELSE Response(TopUserBody(result[1]))

GetProjectMetrics ==
    /\ CanQuery("get_project_metrics")
    /\ \E result \in FetchLatest(rows) : Answer(ProjectMetricsOutcome(result))

GetMetricsByDate ==
    /\ CanQuery("get_metrics_by_date")
    /\ Answer(SingleDayOutcome(SingleDayRow(rows, day[1])))

GetMetricsToday ==
    /\ CanQuery("get_metrics_today")
    /\ Answer(SingleDayOutcome(SingleDayRow(rows, day[1])))

GetTotalUsers ==
    /\ CanQuery("get_total_users")
    /\ \E result \in FetchLatest(rows) : Answer(TotalUsersOutcome(result))

GetTopUser ==
    /\ CanQuery("get_top_user")
    /\ \E result \in FetchLatest(rows) : Answer(TopUserOutcome(result))

GetEntriesPerDay ==
    /\ CanQuery("get_entries_per_day")
    /\ Answer(Response([entries_per_day |-> EntriesPerDay(rows, today)]))

GetEntriesPerWeekday ==
    /\ CanQuery("get_entries_per_weekday")
    /\ Answer(Response([entries_per_weekday |-> EntriesPerWeekday(rows, today)]))

GetEntriesPerMonth ==
    /\ CanQuery("get_entries_per_month")
    /\ Answer(Response([entries_per_month |-> EntriesPerMonth(rows, today)]))

(* list_projects once connected, lines 123-127 *)
ListProjects ==
    /\ pc = "query" /\ phase = "handler"
    /\ endpoint = "list_projects"
    /\ issued' = Append(issued, ProjectsQuery)
    /\ conns' = Close(conns)
    /\ response' = Response([projects |-> projects])
    /\ pc' = "done"
    /\ UNCHANGED << today, rows, phase, endpoint, project_id, day, attempts,
                    slept, table_name, raisedAt >>

(* an except clause that answers with an empty body instead of raising *)
QueryErrorSwallowed(detail) == Response(<< >>)

(* the except clauses of the handlers: ProgrammingError and MySQLError *)
QueryErrorOutcome(detail) == HTTPException(500, detail)

(* cursor.execute of a handler raises: the table does not exist, the     *)
(* connection is lost, ...                                               *)
HandlerQueryFails ==
    /\ pc = "query" /\ phase = "handler"
    /\ issued' = Append(issued, IF endpoint = "list_projects" THEN ProjectsQuery
                                ELSE MetricsQuery(table_name[1]))
    /\ conns' = Close(conns)
    /\ \E detail \in (IF endpoint = "list_projects"
                      THEN { "Failed to fetch projects" }
                      ELSE { "Query error", "Database error" }) :
           response' = QueryErrorOutcome(detail)
    /\ raisedAt' = "handler_query"
    /\ pc' = "done"
    /\ UNCHANGED << today, rows, phase, endpoint, project_id, day, attempts,
                    slept, table_name >>

(* the response is sent; the handler's locals are gone *)
Respond ==
    /\ pc = "done"
    /\ pc' = "idle"
    /\ phase' = "handler"
    /\ endpoint' = "list_projects"
    /\ project_id' = UnknownProject
    /\ day' = None
    /\ attempts' = 0
    /\ slept' = 0
    /\ conns' = << >>
    /\ table_name' = None
    /\ issued' = << >>
    /\ raisedAt' = ""
    /\ response' = Pending
    /\ UNCHANGED << today, rows >>

Next ==
    \/ StartListProjects
    \/ StartProjectRequest
    \/ StartToday
    \/ StartByDate
    \/ ConnectSucceeds
    \/ ConnectFails
    \/ LookupProject
    \/ LookupFails
    \/ ListProjects
    \/ GetProjectMetrics
    \/ GetMetricsByDate
    \/ GetMetricsToday
    \/ GetTotalUsers
    \/ GetTopUser
    \/ GetEntriesPerDay
    \/ GetEntriesPerWeekday
    \/ GetEntriesPerMonth
    \/ HandlerQueryFails
    \/ Respond

Spec == Init /\ [][Next]_vars

(* connect_mysql reads nothing of the metrics table: for its progress the  *)
(* table is fixed to one row, any row                                      *)
FairInit == Init /\ Len(rows) = 1

(* a handler runs to completion: pymysql.connect and cursor.execute return *)
(* or raise, and nothing in a handler waits for another request            *)
FairSpec == FairInit /\ [][Next]_vars /\ WF_vars(Next)

-----------------------------------------------------------------------------
(* Properties.                                                              *)

(* the request ended and its metrics query produced a result set *)
QueryAnswered(eps) ==
    /\ pc = "done"
    /\ endpoint \in eps
    /\ raisedAt \in { "", "no_rows" }

(* the request ended and the projects lookup of get_metrics_table answered *)
LookupAnswered ==
    /\ pc = "done"
    /\ endpoint # "list_projects"
    /\ raisedAt \in { "", "no_rows", "get_metrics_table", "handler_query" }

MetricsQueriesIssued == { k \in DOMAIN issued : issued[k].on = "metrics" }

(* the rows of the table whose last_updated falls on the requested day *)
RowsOfDay ==
    { i \in DOMAIN rows :
        /\ rows[i].last_updated # None
        /\ CivilFromDays(rows[i].last_updated[1].date) = day[1] }

(* C1: once the single-day query of by-date or today has been answered,    *)
(* the request ends 404 "not found" when no row of the table has           *)
(* DATE(last_updated) on the requested day, and otherwise succeeds with    *)
(* total_update_count the sum of the matching rows' update_count, a sum    *)
(* of 0 included.                                                          *)
C1_SingleDayFoundOrNotFound ==
    QueryAnswered(SingleDayEndpoints) =>
        IF RowsOfDay = {}
        THEN /\ response.status = 404
             /\ response.payload = None
        ELSE /\ response.status = 200
             /\ response.payload[1].total_update_count
                    = Some(SumUpdates(rows, RowsOfDay))

C1_Witness ==
    /\ QueryAnswered(SingleDayEndpoints)
    /\ RowsOfDay # {}
    /\ SumUpdates(rows, RowsOfDay) = 0
    /\ response.status = 200
    /\ response.payload[1].total_update_count = Some(0)

(* C2: when the lookup finds no row for the project_id the request ends    *)
(* with a 404, neither a 500 nor a success, and has issued no query        *)
(* against a metrics table; and a metrics query is only ever issued after  *)
(* the projects lookup of the same request, for a project that has a row.  *)
C2_UnknownProjectIs404 ==
    /\ (LookupAnswered /\ project_id \notin DOMAIN projects) =>
          /\ response.status = 404
          /\ response.payload = None
          /\ MetricsQueriesIssued = {}
    /\ \A k \in MetricsQueriesIssued :
          /\ k > 1
          /\ issued[1] = ProjectsQuery
          /\ project_id \in DOMAIN projects

C2_Witness ==
    /\ LookupAnswered
    /\ project_id \notin DOMAIN projects
    /\ endpoint = "get_metrics_by_date"
    /\ response.status = 404
    /\ issued = << ProjectsQuery >>

(* C3: connect_mysql makes at most 3 attempts and sleeps 2 seconds after   *)
(* every failed one; it returns at the first attempt that succeeds; it     *)
(* raises the 500 exactly when 3 attempts in a row have failed.            *)
C3_Attempts ==
    /\ attempts <= MaxAttempts
    /\ pc = "connect" => (attempts < MaxAttempts /\ slept = RetryDelay * attempts)
    /\ pc = "query" => (attempts >= 1 /\ slept = RetryDelay * (attempts - 1))
    /\ (response.detail = ConnectionFailed) <=>
          (pc = "done" /\ slept = RetryDelay * MaxAttempts)
    /\ (response.detail = ConnectionFailed) =>
          (response.status = 500 /\ attempts = MaxAttempts)

(* C3: ... and it always terminates without a 4th attempt: every step of  *)
(* a running connect_mysql is one more attempt, an attempt can always be   *)
(* made, the attempts are bounded by 3, and a running connect_mysql        *)
(* eventually returns or raises.                                           *)
C3_ConnectRetriesBounded ==
    /\ []C3_Attempts
    /\ [][pc = "connect" =>
            /\ attempts' = attempts + 1
            /\ attempts' <= MaxAttempts
            /\ (pc' = "connect" => slept' = slept + RetryDelay)
            /\ (pc' = "query" => (slept' = slept /\ Len(conns') = Len(conns) + 1))
            /\ pc' \in { "connect", "query", "done" }]_vars
    /\ [](pc = "connect" => ENABLED (ConnectSucceeds \/ ConnectFails))
    /\ (pc = "connect") ~> (pc # "connect")

C3_Witness ==
    /\ pc = "done"
    /\ response.detail = ConnectionFailed
    /\ phase = "handler"
    /\ Len(conns) = 1
    /\ attempts = MaxAttempts

(* C4: a finished request carries either a complete body with status 200   *)
(* or an error status without any body; a step that failed always leads to *)
(* the second.                                                             *)
C4_ResponseOrError ==
    /\ pc # "done" => response = Pending
    /\ pc = "done" =>
          \/ /\ response.status = 200
             /\ response.payload # None
             /\ raisedAt = ""
          \/ /\ response.status \in { 400, 404, 500 }
             /\ response.payload = None
             /\ raisedAt # ""
    /\ raisedAt # "" => (response.status >= 400 /\ response.payload = None)

C4_Witness ==
    /\ pc = "done"
    /\ raisedAt = "handler_query"
    /\ endpoint = "get_entries_per_day"
    /\ response.status = 500
    /\ response.payload = None

(* row j was updated after row i (a NULL last_updated is before all) *)
UpdatedAfter(j, i) ==
    /\ rows[j].last_updated # None
    /\ \/ rows[i].last_updated = None
       \/ rows[i].last_updated[1].date < rows[j].last_updated[1].date
       \/ /\ rows[i].last_updated[1].date = rows[j].last_updated[1].date
          /\ rows[i].last_updated[1].sec < rows[j].last_updated[1].sec

(* the rows no other row was updated after *)
NewestRows == { i \in DOMAIN rows : \A j \in DOMAIN rows : ~UpdatedAfter(j, i) }

(* the greatest of the values present in a set of optional integers *)
Greatest(vals) ==
    IF \A v \in vals : v = None THEN None
    ELSE CHOOSE v \in vals : v # None /\ \A w \in vals : w = None \/ w[1] <= v[1]

(* C5 as stated: total-users reports the total_users of the last row of    *)
(* the table as stored, not the one of the row latest by timestamp.        *)
C5_LastRowReceived ==
    (QueryAnswered({ "get_total_users" }) /\ response.status = 200) =>
        response.payload[1].total_users = OrZero(rows[Len(rows)].total_users)

(* C5 amended: total-users reports the total_users (0 for NULL) of a row   *)
(* with the greatest last_updated, wherever it is stored; by-date and      *)
(* today report the maximum total_users over the rows of the day.          *)
C5_LatestByTimestamp ==
    /\ (QueryAnswered({ "get_total_users" }) /\ response.status = 200) =>
          \E i \in NewestRows :
              response.payload[1] = [total_users |-> OrZero(rows[i].total_users)]
    /\ (QueryAnswered(SingleDayEndpoints) /\ response.status = 200) =>
          response.payload[1].total_users
              = Greatest({ rows[i].total_users : i \in RowsOfDay })

(* the last stored row is older and carries another total_users *)
C5_Witness ==
    /\ QueryAnswered({ "get_total_users" })
    /\ response.status = 200
    /\ Len(rows) = 2
    /\ Len(rows) \notin NewestRows
    /\ rows[Len(rows)].total_users = Some(100)
    /\ response.payload[1].total_users = 90

(* top_user_count accumulated over the rows naming user u *)
RECURSIVE Accumulated(_, _)
Accumulated(u, n) ==
    IF n = 0 THEN 0
    ELSE Accumulated(u, n - 1)
         + (IF rows[n].top_user = Some(u) THEN OrZero(rows[n].top_user_count)
            ELSE 0)

NamedUsers == { rows[i].top_user[1] : i \in { j \in DOMAIN rows : rows[j].top_user # None } }

(* C6 as stated: the reported top user has the greatest top_user_count     *)
(* summed over the rows naming a top user, and entry_count is that sum.    *)
C6_AccumulatedTopUser ==
    (QueryAnswered({ "get_top_user" }) /\ response.status = 200
                                       /\ NamedUsers # {}) =>
        \E u \in NamedUsers :
            /\ response.payload[1].top_user = Some(u)
            /\ response.payload[1].entry_count = Accumulated(u, Len(rows))
            /\ \A v \in NamedUsers :
                   Accumulated(v, Len(rows)) <= Accumulated(u, Len(rows))

(* C6 amended: the reported top user and entry_count are the top_user and  *)
(* top_user_count (0 for NULL) of one row, a row with the greatest         *)
(* last_updated; nothing is summed over rows.                              *)
C6_TopUserOfLatestRow ==
    (QueryAnswered({ "get_top_user" }) /\ response.status = 200) =>
        \E i \in NewestRows :
            response.payload[1] =
                [top_user |-> rows[i].top_user,
                 entry_count |-> OrZero(rows[i].top_user_count)]

(* two rows name user 1, with 5 and 3: 3 is reported, not 8 *)
C6_Witness ==
    /\ QueryAnswered({ "get_top_user" })
    /\ response.status = 200
    /\ Len(rows) = 2
    /\ \A i \in DOMAIN rows : rows[i].top_user = Some(1)
    /\ Accumulated(1, Len(rows)) = 8
    /\ response.payload[1] = [top_user |-> Some(1), entry_count |-> 3]

RECURSIVE BucketSum(_)
BucketSum(buckets) ==
    IF buckets = << >> THEN 0
    ELSE Head(buckets).total_updates + BucketSum(Tail(buckets))

(* rows with a last_updated at or after midnight of the given day *)
RowsSince(first) ==
    { i \in DOMAIN rows :
        /\ rows[i].last_updated # None
        /\ rows[i].last_updated[1].date >= first }

(* C7 as stated: the buckets of entries-per-day, and those of              *)
(* entries-per-month, sum to the update_count of all rows of the table.    *)
C7_BucketsSumToAllRows ==
    /\ QueryAnswered({ "get_entries_per_day" }) =>
          BucketSum(response.payload[1].entries_per_day)
              = SumUpdates(rows, DOMAIN rows)
    /\ QueryAnswered({ "get_entries_per_month" }) =>
          BucketSum(response.payload[1].entries_per_month)
              = SumUpdates(rows, DOMAIN rows)

(* C7 amended: the buckets of entries-per-day sum to the update_count of   *)
(* the rows whose last_updated is not NULL and not before the day 30 days  *)
(* ago, those of entries-per-month to that of the rows not before the day  *)
(* 6 months ago; each such row is counted in exactly one bucket (one per   *)
(* day, one per month name) and no other row is counted.                   *)
C7_BucketsSumToWindow ==
    /\ QueryAnswered({ "get_entries_per_day" }) =>
          LET b == response.payload[1].entries_per_day
              W == RowsSince(today - WindowDays)
          IN  /\ BucketSum(b) = SumUpdates(rows, W)
              /\ \A k, l \in DOMAIN b : b[k].day = b[l].day => k = l
              /\ \A k \in DOMAIN b :
                    b[k].total_updates = SumUpdates(rows,
                        { i \in W : CivilFromDays(rows[i].last_updated[1].date)
                                        = b[k].day })
              /\ \A i \in W : \E k \in DOMAIN b :
                    b[k].day = CivilFromDays(rows[i].last_updated[1].date)
    /\ QueryAnswered({ "get_entries_per_month" }) =>
          LET b == response.payload[1].entries_per_month
              W == RowsSince(SubMonths(today, WindowMonths))
          IN  /\ BucketSum(b) = SumUpdates(rows, W)
              /\ \A k, l \in DOMAIN b : b[k].month = b[l].month => k = l
              /\ \A i \in W : \E k \in DOMAIN b :
                    b[k].month = DATE_FORMAT_M(rows[i].last_updated[1])

(* a row exactly 30 days old is counted, an older one of the table is not *)
C7_Witness ==
    /\ QueryAnswered({ "get_entries_per_day" })
    /\ Len(rows) = 2
    /\ rows[1].last_updated = Some(Midnight(today - WindowDays))
    /\ rows[2].last_updated # None
    /\ rows[2].last_updated[1].date < today - WindowDays
    /\ BucketSum(response.payload[1].entries_per_day) = rows[1].update_count
    /\ rows[2].update_count > 0

SummaryEndpoints == ProjectEndpoints \cup SingleDayEndpoints

(* the body of a successful response is the empty summary *)
EmptySummary ==
    response.payload[1] \in
        { [total_users |-> 0],
          [top_user |-> None, entry_count |-> 0],
          [entries_per_day |-> << >>],
          [entries_per_weekday |-> << >>],
          [entries_per_month |-> << >>] }

(* C8 as stated: for a known project whose table has no rows every summary *)
(* endpoint succeeds, with zero numbers, empty lists and no top user.      *)
C8_EmptyTableSucceeds ==
    (QueryAnswered(SummaryEndpoints) /\ rows = << >>) =>
        /\ response.status = 200
        /\ EmptySummary

(* C8 amended: for a known project whose table has no rows, entries-per-   *)
(* day, entries-per-weekday and entries-per-month succeed with an empty    *)
(* list; total-users, top-user, the latest-metrics endpoint, by-date and   *)
(* today end with a 404 and no body.                                       *)
C8_EmptyTableListsOr404 ==
    (QueryAnswered(SummaryEndpoints) /\ rows = << >>) =>
        IF endpoint \in { "get_entries_per_day", "get_entries_per_weekday",
                          "get_entries_per_month" }
        THEN /\ response.status = 200
             /\ EmptySummary
        ELSE /\ response.status = 404
             /\ response.payload = None

C8_Witness ==
    /\ QueryAnswered({ "get_total_users" })
    /\ rows = << >>
    /\ table_name = Some(MetricsTable)
    /\ response.status = 404
    /\ response.payload = None

(* C9: every connection a request opens is closed exactly once by the time *)
(* the request ends, whatever the path; the request holds at most one open *)
(* connection, the lookup's being closed before the handler connects.      *)
C9_ConnectionsClosedOnce ==
    /\ \A k \in DOMAIN conns : conns[k] <= 1
    /\ Cardinality({ k \in DOMAIN conns : conns[k] = 0 }) <= 1
    /\ pc \in { "connect", "done" } => \A k \in DOMAIN conns : conns[k] = 1
    /\ pc = "query" =>
          /\ conns # << >>
          /\ conns[Len(conns)] = 0
    /\ (pc = "done" /\ raisedAt \in { "", "no_rows", "handler_query" }) =>
          Len(conns) = (IF endpoint = "list_projects" THEN 1 ELSE 2)

C9_Witness ==
    /\ pc = "done"
    /\ raisedAt = "handler_query"
    /\ endpoint = "get_project_metrics"
    /\ conns = << 1, 1 >>

(* C10: every query issued against a metrics table names a table that      *)
(* matches ^[a-zA-Z_][a-zA-Z0-9_]*$; when the table_name the lookup finds  *)
(* is NULL, empty or does not match, the request ends with the 400 of      *)
(* sanitize_table_name and issues no metrics query.                        *)
C10_OnlyIdentifiersQueried ==
    /\ \A k \in MetricsQueriesIssued : ReMatchIdentifier(issued[k].table[1])
    /\ (LookupAnswered /\ project_id \in DOMAIN projects) =>
          LET stored == projects[project_id]
          IN  (stored = None \/ stored = Some(<< >>)
                             \/ ~ReMatchIdentifier(stored[1])) =>
                 /\ response.status = 400
                 /\ raisedAt = "get_metrics_table"
                 /\ MetricsQueriesIssued = {}

C10_Witness ==
    /\ LookupAnswered
    /\ projects[project_id] = Some(<< "t", ";", "-" >>)
    /\ response.status = 400
    /\ issued = << ProjectsQuery >>

=============================================================================
